---- MODULE Spec2Model ----
(***************************************************************************)
(* Model of camera-coverage.ts: the interval coverage checker              *)
(* isRangeFullyCovered (sort a copy, merge touching ranges, walk the       *)
(* merged blocks) and the dual-axis evaluator canCamerasCoverDesiredRange. *)
(*                                                                         *)
(* Objects live in `heap` (a reference is an index into it) and arrays in  *)
(* `arrays` (an array reference is an index, an array a sequence of object *)
(* references), so that copying and in-place mutation are distinguishable. *)
(***************************************************************************)
EXTENDS Integers, Sequences, FiniteSets, TLC

VARIABLES
  heap,             \* NumericRange objects, by reference
  arrays,           \* NumericRange[] arrays, by reference
  desired,          \* isRangeFullyCovered: parameter `desired` (object reference)
  availableRanges,  \* isRangeFullyCovered: parameter `availableRanges` (array reference)
  sorted,           \* local `sorted` (array reference, 0 before line 48)
  merged,           \* local `merged` (array reference, 0 before line 51)
  current,          \* local `current` (object reference, 0 before line 52)
  i,                \* merge loop index (0-based, as in the code)
  coverageStart,    \* local `coverageStart`
  k,                \* number of merged blocks the walk has passed
  result,           \* value returned by isRangeFullyCovered (valid when pc = "done")
  pc,               \* position inside isRangeFullyCovered
  cameras,          \* canCamerasCoverDesiredRange: parameter `hardwareCameras`
  desiredDistance,  \* parameter `desiredDistance`
  desiredLight,     \* parameter `desiredLight`
  distanceRanges,   \* local `distanceRanges`
  lightRanges,      \* local `lightRanges`
  distanceCovered,  \* local `distanceCovered`
  lightCovered,     \* local `lightCovered`
  camResult,        \* value returned by canCamerasCoverDesiredRange (valid when cpc = "done")
  cpc,              \* position inside canCamerasCoverDesiredRange
  callerRanges,     \* caller's snapshot of the candidate values, taken at the call
  callerDesired     \* caller's snapshot of the target value, taken at the call

vars == <<heap, arrays, desired, availableRanges, sorted, merged, current, i,
          coverageStart, k, result, pc, cameras, desiredDistance, desiredLight,
          distanceRanges, lightRanges, distanceCovered, lightCovered, camResult,
          cpc, callerRanges, callerDesired>>

\* ---------- Bounds ----------
MaxVal == 3       \* range endpoints of a direct call are drawn from 0..MaxVal
MaxLen == 3       \* at most MaxLen candidate ranges in a direct call
MalMaxVal == 3    \* endpoints of a direct call with malformed ranges: 0..MalMaxVal
CamMaxVal == 1    \* range endpoints of the cameras are drawn from 0..CamMaxVal
MaxCameras == 2   \* at most MaxCameras cameras

\* ---------- Types ----------
NumericRange(lo, hi) == [min |-> lo, max |-> hi]

AllRanges(n) == {NumericRange(a, b) : a \in 0..n, b \in 0..n}

WellFormed(r) == r.min <= r.max

WellFormedRanges(n) == {r \in AllRanges(n) : WellFormed(r)}

CameraSpec(d, l) == [distance |-> d, light |-> l]

SeqsUpTo(S, n) == UNION {[1..m -> S] : m \in 0..n}

MathMax(a, b) == IF a >= b THEN a ELSE b

\* ---------- Object and array primitives ----------

\* mutant: the object itself instead of a copy of it
CopyObjectAlias(h, r) == [heap |-> h, ref |-> r]

\* `{ ...x }`: a fresh object with the fields of the object r
CopyObject(h, r) == [heap |-> Append(h, h[r]), ref |-> Len(h) + 1]

\* `[...a]`: a fresh array holding the same object references as the array a
SpreadArray(as, a) == [arrays |-> Append(as, as[a]), ref |-> Len(as) + 1]

\* `[]`: a fresh empty array
NewArray(as) == [arrays |-> Append(as, <<>>), ref |-> Len(as) + 1]

\* mutant: the comparator with its operands exchanged (descending order)
CompareMinReversed(a, b) == b.min - a.min

\* the comparator `(a, b) => a.min - b.min`
CompareMin(a, b) == a.min - b.min

\* Array.prototype.sort with that comparator: a stable sort, here by insertion.
\* InsertByMin puts r behind every element that does not compare greater.
RECURSIVE InsertByMin(_, _, _)
InsertByMin(h, s, r) ==
  IF s = <<>> THEN <<r>>
  ELSE IF CompareMin(h[r], h[Head(s)]) < 0 THEN <<r>> \o s
  ELSE <<Head(s)>> \o InsertByMin(h, Tail(s), r)

\* mutant: the array is left in input order
SortByMinNone(h, s) == s

RECURSIVE SortByMin(_, _)
SortByMin(h, s) ==
  IF s = <<>> THEN <<>>
  ELSE InsertByMin(h, SortByMin(h, SubSeq(s, 1, Len(s) - 1)), s[Len(s)])

\* mutant: only overlapping ranges merge, touching ones do not
TouchesOverlapOnly(cur, next) == next.min <= cur.max

\* mutant: a range two units past the accumulator still merges
TouchesWide(cur, next) == next.min <= cur.max + 2

\* the merge condition `next.min <= current.max + 1`
Touches(cur, next) == next.min <= cur.max + 1

\* ---------- isRangeFullyCovered, statement by statement ----------
\* A frame s is the record of the heap, the arrays and the locals of one call.

\* the state on entry of isRangeFullyCovered(d, cs): the caller owns one object
\* per candidate, the target object and the candidate array
Entry(d, cs) ==
  [heap |-> cs \o <<d>>,
   arrays |-> << [j \in 1..Len(cs) |-> j] >>,
   desired |-> Len(cs) + 1,
   availableRanges |-> 1,
   sorted |-> 0, merged |-> 0, current |-> 0, i |-> 0,
   coverageStart |-> 0, k |-> 0, result |-> FALSE, pc |-> "l45"]

\* mutant: no candidates counts as covered
CheckEmptyStepVacuous(s) ==
  IF Len(s.arrays[s.availableRanges]) = 0
  THEN [s EXCEPT !.result = TRUE, !.pc = "done"]
  ELSE [s EXCEPT !.pc = "l48"]

\* line 45
CheckEmptyStep(s) ==
  IF Len(s.arrays[s.availableRanges]) = 0
  THEN [s EXCEPT !.result = FALSE, !.pc = "done"]
  ELSE [s EXCEPT !.pc = "l48"]

\* line 48: copy the array, sort the copy in place
SortCopyStep(s) ==
  LET sp == SpreadArray(s.arrays, s.availableRanges) IN
  [s EXCEPT !.arrays = [sp.arrays EXCEPT ![sp.ref] = SortByMin(s.heap, @)],
            !.sorted = sp.ref,
            !.pc = "l51"]

\* lines 51-52 and the loop initialisation of line 54
MergeInitStep(s) ==
  LET na == NewArray(s.arrays)
      cp == CopyObject(s.heap, s.arrays[s.sorted][1]) IN
  [s EXCEPT !.arrays = na.arrays, !.merged = na.ref,
            !.heap = cp.heap, !.current = cp.ref,
            !.i = 1, !.pc = "l54"]

\* lines 54-65: one iteration of the merge loop (i < sorted.length)
MergeLoopStep(s) ==
  LET next == s.arrays[s.sorted][s.i + 1] IN
  IF Touches(s.heap[s.current], s.heap[next])
  THEN [s EXCEPT !.heap[s.current].max = MathMax(@, s.heap[next].max),
                 !.i = s.i + 1]
  ELSE LET cp == CopyObject(s.heap, next) IN
       [s EXCEPT !.arrays[s.merged] = Append(@, s.current),
                 !.heap = cp.heap, !.current = cp.ref,
                 !.i = s.i + 1]

\* mutant: the last accumulator is never pushed
MergePushLastStepSkip(s) == [s EXCEPT !.pc = "l69"]

\* line 66, after the loop
MergePushLastStep(s) ==
  [s EXCEPT !.arrays[s.merged] = Append(@, s.current), !.pc = "l69"]

\* line 69
WalkInitStep(s) ==
  [s EXCEPT !.coverageStart = s.heap[s.desired].min, !.k = 0, !.pc = "l71"]

\* mutant: the gap test before the block is missing
WalkLoopStepNoGap(s) ==
  LET range == s.heap[s.arrays[s.merged][s.k + 1]] IN
  IF range.max >= s.heap[s.desired].max
  THEN [s EXCEPT !.result = TRUE, !.pc = "done"]
  ELSE [s EXCEPT !.coverageStart = range.max + 1, !.k = s.k + 1]

\* mutant: the block has to pass the desired max, reaching it is not enough
WalkLoopStepStrict(s) ==
  LET range == s.heap[s.arrays[s.merged][s.k + 1]] IN
  IF range.min > s.coverageStart
  THEN [s EXCEPT !.result = FALSE, !.pc = "done"]
  ELSE IF range.max > s.heap[s.desired].max
  THEN [s EXCEPT !.result = TRUE, !.pc = "done"]
  ELSE [s EXCEPT !.coverageStart = range.max + 1, !.k = s.k + 1]

\* lines 71-80: one iteration of the coverage walk
WalkLoopStep(s) ==
  LET range == s.heap[s.arrays[s.merged][s.k + 1]] IN
  IF range.min > s.coverageStart
  THEN [s EXCEPT !.result = FALSE, !.pc = "done"]
  ELSE IF range.max >= s.heap[s.desired].max
  THEN [s EXCEPT !.result = TRUE, !.pc = "done"]
  ELSE [s EXCEPT !.coverageStart = range.max + 1, !.k = s.k + 1]

\* line 83
WalkExhaustedStep(s) == [s EXCEPT !.result = FALSE, !.pc = "done"]

MergeLoopRuns(s) == s.pc = "l54" /\ s.i < Len(s.arrays[s.sorted])

WalkLoopRuns(s) == s.pc = "l71" /\ s.k < Len(s.arrays[s.merged])

\* the statement a frame executes next
StepOf(s) ==
  CASE s.pc = "l45" -> CheckEmptyStep(s)
    [] s.pc = "l48" -> SortCopyStep(s)
    [] s.pc = "l51" -> MergeInitStep(s)
    [] s.pc = "l54" -> IF MergeLoopRuns(s) THEN MergeLoopStep(s) ELSE MergePushLastStep(s)
    [] s.pc = "l69" -> WalkInitStep(s)
    [] s.pc = "l71" -> IF WalkLoopRuns(s) THEN WalkLoopStep(s) ELSE WalkExhaustedStep(s)
    [] OTHER -> s

RECURSIVE RunUntil(_, _)
RunUntil(s, stops) == IF s.pc \in stops THEN s ELSE RunUntil(StepOf(s), stops)

\* the value a call returns
isRangeFullyCovered(d, cs) == RunUntil(Entry(d, cs), {"done"}).result

\* the values of the blocks of the array `merged` of a frame
BlocksOf(s) ==
  IF s.merged = 0 THEN <<>>
  ELSE [j \in 1..Len(s.arrays[s.merged]) |-> s.heap[s.arrays[s.merged][j]]]

\* the merged block sequence lines 48-66 produce for the candidates cs (non-empty)
MergedBlocks(cs) == BlocksOf(RunUntil(Entry(NumericRange(0, 0), cs), {"l69", "done"}))

\* ---------- The state machine ----------
Frame ==
  [heap |-> heap, arrays |-> arrays, desired |-> desired,
   availableRanges |-> availableRanges, sorted |-> sorted, merged |-> merged,
   current |-> current, i |-> i, coverageStart |-> coverageStart, k |-> k,
   result |-> result, pc |-> pc]

Apply(s) ==
  /\ heap' = s.heap /\ arrays' = s.arrays /\ desired' = s.desired
  /\ availableRanges' = s.availableRanges /\ sorted' = s.sorted
  /\ merged' = s.merged /\ current' = s.current /\ i' = s.i
  /\ coverageStart' = s.coverageStart /\ k' = s.k
  /\ result' = s.result /\ pc' = s.pc

IdleFrame == [Entry(NumericRange(0, 0), <<>>) EXCEPT !.heap = <<>>, !.arrays = <<>>,
                                                     !.desired = 0,
                                                     !.availableRanges = 0,
                                                     !.pc = "idle"]

camVars == <<cameras, desiredDistance, desiredLight, distanceRanges, lightRanges,
             distanceCovered, lightCovered, camResult, cpc>>

frameVars == <<heap, arrays, desired, availableRanges, sorted, merged, current, i,
               coverageStart, k, result, pc>>

callerVars == <<callerRanges, callerDesired>>

CamerasIdle ==
  /\ cameras = <<>> /\ desiredDistance = NumericRange(0, 0)
  /\ desiredLight = NumericRange(0, 0)
  /\ distanceRanges = <<>> /\ lightRanges = <<>>
  /\ distanceCovered = FALSE /\ lightCovered = FALSE
  /\ camResult = FALSE /\ cpc = "idle"

FrameIs(s) ==
  /\ heap = s.heap /\ arrays = s.arrays /\ desired = s.desired
  /\ availableRanges = s.availableRanges /\ sorted = s.sorted
  /\ merged = s.merged /\ current = s.current /\ i = s.i
  /\ coverageStart = s.coverageStart /\ k = s.k
  /\ result = s.result /\ pc = s.pc

\* a caller enters isRangeFullyCovered with a target from T and candidates from R
InitDirect(T, R) ==
  \E d \in T, cs \in SeqsUpTo(R, MaxLen) :
    /\ FrameIs(Entry(d, cs))
    /\ callerRanges = cs /\ callerDesired = d
    /\ CamerasIdle

CameraSpecs ==
  {CameraSpec(d, l) : d \in WellFormedRanges(CamMaxVal), l \in WellFormedRanges(CamMaxVal)}

\* a caller enters canCamerasCoverDesiredRange
InitCameras ==
  \E dd \in WellFormedRanges(CamMaxVal), dl \in WellFormedRanges(CamMaxVal),
     cs \in SeqsUpTo(CameraSpecs, MaxCameras) :
    /\ cameras = cs /\ desiredDistance = dd /\ desiredLight = dl
    /\ distanceRanges = <<>> /\ lightRanges = <<>>
    /\ distanceCovered = FALSE /\ lightCovered = FALSE
    /\ camResult = FALSE /\ cpc = "c105"
    /\ FrameIs(IdleFrame)
    /\ callerRanges = <<>> /\ callerDesired = NumericRange(0, 0)

Init == InitDirect(WellFormedRanges(MaxVal), WellFormedRanges(MaxVal)) \/ InitCameras

\* the target and the candidates may be malformed (min > max)
InitMalformed == InitDirect(AllRanges(MalMaxVal), AllRanges(MalMaxVal)) \/ InitCameras

CheckEmpty ==
  /\ pc = "l45"
  /\ Apply(CheckEmptyStep(Frame))
  /\ UNCHANGED <<camVars, callerVars>>

SortCopy ==
  /\ pc = "l48"
  /\ Apply(SortCopyStep(Frame))
  /\ UNCHANGED <<camVars, callerVars>>

MergeInit ==
  /\ pc = "l51"
  /\ Apply(MergeInitStep(Frame))
  /\ UNCHANGED <<camVars, callerVars>>

MergeLoop ==
  /\ MergeLoopRuns(Frame)
  /\ Apply(MergeLoopStep(Frame))
  /\ UNCHANGED <<camVars, callerVars>>

MergePushLast ==
  /\ pc = "l54" /\ ~MergeLoopRuns(Frame)
  /\ Apply(MergePushLastStep(Frame))
  /\ UNCHANGED <<camVars, callerVars>>

WalkInit ==
  /\ pc = "l69"
  /\ Apply(WalkInitStep(Frame))
  /\ UNCHANGED <<camVars, callerVars>>

WalkLoop ==
  /\ WalkLoopRuns(Frame)
  /\ Apply(WalkLoopStep(Frame))
  /\ UNCHANGED <<camVars, callerVars>>

WalkExhausted ==
  /\ pc = "l71" /\ ~WalkLoopRuns(Frame)
  /\ Apply(WalkExhaustedStep(Frame))
  /\ UNCHANGED <<camVars, callerVars>>

\* lines 105-106
MapRanges ==
  /\ cpc = "c105"
  /\ distanceRanges' = [j \in 1..Len(cameras) |-> cameras[j].distance]
  /\ lightRanges' = [j \in 1..Len(cameras) |-> cameras[j].light]
  /\ cpc' = "c108"
  /\ UNCHANGED <<cameras, desiredDistance, desiredLight, distanceCovered,
                 lightCovered, camResult, frameVars, callerVars>>

\* line 108
CheckDistance ==
  /\ cpc = "c108"
  /\ distanceCovered' = isRangeFullyCovered(desiredDistance, distanceRanges)
  /\ cpc' = "c109"
  /\ UNCHANGED <<cameras, desiredDistance, desiredLight, distanceRanges,
                 lightRanges, lightCovered, camResult, frameVars, callerVars>>

\* line 109
CheckLight ==
  /\ cpc = "c109"
  /\ lightCovered' = isRangeFullyCovered(desiredLight, lightRanges)
  /\ cpc' = "c111"
  /\ UNCHANGED <<cameras, desiredDistance, desiredLight, distanceRanges,
                 lightRanges, distanceCovered, camResult, frameVars, callerVars>>

\* mutant: one covered axis is enough
ReturnEither ==
  /\ cpc = "c111"
  /\ camResult' = (distanceCovered \/ lightCovered)
  /\ cpc' = "done"
  /\ UNCHANGED <<cameras, desiredDistance, desiredLight, distanceRanges,
                 lightRanges, distanceCovered, lightCovered, frameVars, callerVars>>

\* line 111
ReturnBoth ==
  /\ cpc = "c111"
  /\ camResult' = (distanceCovered /\ lightCovered)
  /\ cpc' = "done"
  /\ UNCHANGED <<cameras, desiredDistance, desiredLight, distanceRanges,
                 lightRanges, distanceCovered, lightCovered, frameVars, callerVars>>

Next ==
  \/ CheckEmpty \/ SortCopy \/ MergeInit \/ MergeLoop \/ MergePushLast
  \/ WalkInit \/ WalkLoop \/ WalkExhausted
  \/ MapRanges \/ CheckDistance \/ CheckLight \/ ReturnBoth

Spec == Init /\ [][Next]_vars

SpecMalformed == InitMalformed /\ [][Next]_vars

\* ---------- Properties ----------

\* v lies in the closed range r
InRange(v, r) == r.min <= v /\ v <= r.max

\* every integer of the target d lies in at least one of the candidates cs
Covered(d, cs) ==
  \A v \in d.min..d.max : \E j \in 1..Len(cs) : InRange(v, cs[j])

\* the sequence cs with x put in front of position p
InsertAt(cs, p, x) == SubSeq(cs, 1, p - 1) \o <<x>> \o SubSeq(cs, p, Len(cs))

Returned == pc = "done"

MergeFinished == pc \in {"l69", "l71", "done"} /\ merged # 0

\* C1: for a well-formed target and well-formed candidates, the call returns
\* true exactly when every integer of the target lies in some candidate.
C1_CoverageIffUnion == Returned => (result = Covered(callerDesired, callerRanges))

C1_Witness ==
  /\ Returned /\ result /\ Len(callerRanges) = 3
  /\ callerRanges[1].min > callerRanges[2].min
  /\ callerRanges[3].min > callerDesired.max
  /\ callerDesired.min < callerDesired.max
  /\ ~Covered(callerDesired, <<callerRanges[1]>>)
  /\ ~Covered(callerDesired, <<callerRanges[2]>>)

\* C2: when the call returned true, the call with one more well-formed range,
\* put anywhere into the candidates, returns true as well.
C2_Monotonic ==
  (Returned /\ result) =>
    \A x \in WellFormedRanges(MaxVal), p \in 1..(Len(callerRanges) + 1) :
      isRangeFullyCovered(callerDesired, InsertAt(callerRanges, p, x))

C2_Witness ==
  /\ Returned /\ result /\ Len(callerRanges) = 2
  /\ ~Covered(callerDesired, <<callerRanges[1]>>)
  /\ ~Covered(callerDesired, <<callerRanges[2]>>)

\* C3: the call returns the same value for every permutation of the candidates.
C3_OrderInvariant ==
  Returned =>
    \A f \in Permutations(1..Len(callerRanges)) :
      isRangeFullyCovered(callerDesired, [j \in 1..Len(callerRanges) |-> callerRanges[f[j]]])
        = result

C3_Witness ==
  /\ Returned /\ result /\ Len(callerRanges) = 3
  /\ callerRanges[1].min = callerRanges[2].min
  /\ callerRanges[1].max > callerRanges[2].max
  /\ callerRanges[3].min < callerRanges[1].min
  /\ ~Covered(callerDesired, <<callerRanges[2], callerRanges[3]>>)

\* C4: canCamerasCoverDesiredRange returns the conjunction of the two per-axis
\* results, and false as soon as one axis has an uncovered value.
C4_BothAxes ==
  cpc = "done" =>
    LET dr == [j \in 1..Len(cameras) |-> cameras[j].distance]
        lr == [j \in 1..Len(cameras) |-> cameras[j].light] IN
    /\ camResult = (isRangeFullyCovered(desiredDistance, dr)
                      /\ isRangeFullyCovered(desiredLight, lr))
    /\ (~Covered(desiredDistance, dr) \/ ~Covered(desiredLight, lr)) => ~camResult

C4_Witness ==
  /\ cpc = "done" /\ ~camResult /\ Len(cameras) = 2
  /\ distanceCovered /\ ~lightCovered

\* C5: with no candidates the call returns false whatever the target, and with
\* no cameras canCamerasCoverDesiredRange returns false.
C5_EmptyIsFalse ==
  /\ (Returned /\ callerRanges = <<>>) => ~result
  /\ (cpc = "done" /\ cameras = <<>>) => ~camResult

C5_Witness == Returned /\ callerRanges = <<>> /\ callerDesired.min > callerDesired.max

\* C6: a single candidate that reaches from the target's min or below to the
\* target's max or above makes the call return true.
C6_SingleCovers ==
  (/\ Returned /\ Len(callerRanges) = 1
   /\ callerRanges[1].min <= callerDesired.min
   /\ callerRanges[1].max >= callerDesired.max) => result

C6_Witness ==
  /\ Returned /\ Len(callerRanges) = 1 /\ result
  /\ callerRanges[1] = callerDesired
  /\ callerDesired.min < callerDesired.max

\* C7: against the target [a,c], the candidates [a,b] and [b+1,c] (in either
\* order) give true, and the candidates [a,b] and [b+2,c] give false.
C7_Adjacency ==
  (Returned /\ Len(callerRanges) = 2) =>
    \A f \in Permutations(1..2) :
      LET x == callerRanges[f[1]]
          y == callerRanges[f[2]] IN
      /\ (/\ x.min = callerDesired.min /\ y.max = callerDesired.max
          /\ y.min = x.max + 1) => result
      /\ (/\ x.min = callerDesired.min /\ y.max = callerDesired.max
          /\ y.min = x.max + 2) => ~result

C7_Witness ==
  /\ Returned /\ Len(callerRanges) = 2 /\ result
  /\ callerRanges[2].min = callerDesired.min
  /\ callerRanges[1].max = callerDesired.max
  /\ callerRanges[1].min = callerRanges[2].max + 1

\* C8: at every point of a call the caller's array holds the same objects in
\* the same order, and every candidate object and the target object hold the
\* values they held at the call.
C8_InputsUntouched ==
  pc # "idle" =>
    /\ availableRanges = 1
    /\ arrays[availableRanges] = [j \in 1..Len(callerRanges) |-> j]
    /\ \A j \in 1..Len(callerRanges) : heap[j] = callerRanges[j]
    /\ desired = Len(callerRanges) + 1
    /\ heap[desired] = callerDesired

C8_Witness ==
  /\ Returned /\ merged # 0
  /\ arrays[sorted] # arrays[availableRanges]
  /\ heap[arrays[merged][1]].max > heap[arrays[sorted][1]].max

\* C9: also with malformed candidates, the merged blocks are ascending by min
\* and each block's max is below the next block's min.
C9_SortedDisjoint ==
  MergeFinished =>
    LET b == BlocksOf(Frame) IN
    \A j \in 1..(Len(b) - 1) : b[j].min <= b[j + 1].min /\ b[j].max < b[j + 1].min

C9_Witness ==
  /\ MergeFinished /\ Len(BlocksOf(Frame)) >= 2
  /\ BlocksOf(Frame)[1].min > BlocksOf(Frame)[1].max
  /\ \E j \in 1..Len(callerRanges) : callerRanges[j].min > callerRanges[j].max + 1

\* C10: sorting and merging the merged blocks of well-formed candidates gives
\* the same block sequence again.
C10_MergeIdempotent ==
  MergeFinished => MergedBlocks(BlocksOf(Frame)) = BlocksOf(Frame)

C10_Witness ==
  /\ MergeFinished /\ Len(BlocksOf(Frame)) = 2
  /\ Len(callerRanges) = 3 /\ BlocksOf(Frame)[1] # callerRanges[1]
  /\ \A j \in 1..3 : BlocksOf(Frame)[1] # callerRanges[j]

\* the well-formed ranges among cs, in order
WellFormedOnly(cs) == SelectSeq(cs, WellFormed)

\* C11: when the call returns true, every integer of the target lies in some
\* well-formed candidate, also when malformed candidates are present.
C11_TrueIsSound ==
  (Returned /\ result) => Covered(callerDesired, WellFormedOnly(callerRanges))

C11_Witness ==
  /\ Returned /\ result /\ Len(callerRanges) = 3
  /\ callerDesired.min < callerDesired.max
  /\ callerRanges[1].min > callerRanges[1].max
  /\ \A j \in 1..3 : ~Covered(callerDesired, <<callerRanges[j]>>)

====
